---- MODULE Spec2Model ----
(***************************************************************************)
(* Construction and serialization of a routing net (src/src/components.rs). *)
(*                                                                         *)
(* Net::new / NetTree::new turn a pin list and a set of axis-aligned 3D    *)
(* segments into a vector of junctions (NetNode) wired by directional      *)
(* pointers; Display for Net writes the junctions and walks the pointers.  *)
(*                                                                         *)
(* Conventions of the model:                                               *)
(*   - Option<T> is a sequence of length 0 (None) or 1 (Some).             *)
(*   - Pair is <<row, col>>, Point is <<row, col, lay>>, Route is          *)
(*     <<source, target>>.                                                 *)
(*   - vector indices are 1-based (Rust index i is i + 1 here).            *)
(*   - HashSet / HashMap iteration orders are nondeterministic choices.    *)
(*   - `debug` tells whether debug_assert! is compiled in.                 *)
(***************************************************************************)
EXTENDS Integers, Sequences, FiniteSets, TLC

VARIABLES
    id,          \* Net::id
    conn_pins,   \* argument conn_pins : Vec<usize>
    segments,    \* argument segments : HashSet<Route<usize>>
    debug,       \* build profile: TRUE when debug assertions are compiled in
    pc,          \* position of the call: start, loop, built, formatted, panicked, overflow
    panic_msg,   \* message of the panic that ended the call, "" when none
    nodes,       \* NetTree::nodes (inside NetTree::new: the local `nodes`)
    union_find,  \* local union_find of NetTree::new
    uf_cnt,      \* local uf_cnt of NetTree::new
    remaining,   \* segments the loop of NetTree::new has not consumed yet
    output       \* text written by Display::fmt, a sequence of lines of fields

vars == <<id, conn_pins, segments, debug, pc, panic_msg, nodes, union_find,
          uf_cnt, remaining, output>>

----------------------------------------------------------------------------
(* Bounds and input universes *)

\* Size of the input of one call: listed pins plus segments.
MaxInputs == 3

\* One row of the grid, and the same row with a junction above its first cell.
RowPositions == {<<0, 0>>, <<0, 1>>, <<0, 3>>}
GridPositions == RowPositions \cup {<<1, 0>>}
Layers == {1, 2}
PinIds == 0 .. 3
NetIds == {0}

None == <<>>
Some(x) == <<x>>

\* usize::MAX of the span sentinel; only compared with layer numbers.
UsizeMax == 2147483647
UsizeMin == 0

PinNotFound == "Pin not found in database"
AssertFailed == "assertion failed"

----------------------------------------------------------------------------
(* Geometry primitives *)

With(pair, lay) == <<pair[1], pair[2], lay>>

Flatten(pt) == <<pt[1], pt[2]>>

Lay(pt) == pt[3]

Vector(route) ==
    <<route[2][1] - route[1][1], route[2][2] - route[1][2], route[2][3] - route[1][3]>>

\* Route::towards; "unreachable" stands for the unreachable!() panic.
RouteTowards(route) ==
    LET v == Vector(route) IN
    IF v = <<0, 0, 0>> THEN "unreachable"
    ELSE IF v[2] = 0 /\ v[3] = 0 THEN (IF v[1] > 0 THEN "Up" ELSE "Down")
    ELSE IF v[1] = 0 /\ v[3] = 0 THEN (IF v[2] > 0 THEN "Right" ELSE "Left")
    ELSE IF v[1] = 0 /\ v[2] = 0 THEN (IF v[3] > 0 THEN "Top" ELSE "Bottom")
    ELSE "unreachable"

Inv(t) ==
    CASE t = "Up" -> "Down"
      [] t = "Down" -> "Up"
      [] t = "Left" -> "Right"
      [] t = "Right" -> "Left"
      [] t = "Top" -> "Bottom"
      [] t = "Bottom" -> "Top"

Planar == {"Up", "Down", "Left", "Right"}

IsPlanar(route) == RouteTowards(route) \in Planar

\* The axis-aligned routes between the given positions.
RoutesOver(positions) ==
    LET points == {With(p, l) : p \in positions, l \in Layers}
    IN  {r \in points \X points : RouteTowards(r) # "unreachable"}

\* The caller's pin-position lookup: pins 1 and 2 share a position, pin 3 is unknown.
pin_position(idx) ==
    CASE idx = 0 -> Some(<<0, 0>>)
      [] idx = 1 -> Some(<<0, 3>>)
      [] idx = 2 -> Some(<<0, 3>>)
      [] OTHER -> None

----------------------------------------------------------------------------
(* NetNode *)

NewNode(position, tag) ==
    [id |-> tag, position |-> position,
     up |-> None, down |-> None, left |-> None, right |-> None]

Neightbors(node) == <<node.up, node.down, node.left, node.right>>

Min(a, b) == IF a < b THEN a ELSE b
Max(a, b) == IF a > b THEN a ELSE b

RECURSIVE SpanFold(_, _, _)
SpanFold(opts, k, acc) ==
    IF k > Len(opts) THEN acc
    ELSE IF opts[k] = None THEN SpanFold(opts, k + 1, acc)
    ELSE SpanFold(opts, k + 1,
                  <<Min(acc[1], opts[k][1].height), Max(acc[2], opts[k][1].height)>>)

SpanSwapped(node) ==
    LET s == SpanFold(Neightbors(node), 1, <<UsizeMax, UsizeMin>>) IN <<s[2], s[1]>>

Span(node) == SpanFold(Neightbors(node), 1, <<UsizeMax, UsizeMin>>)

Index(node, towards) ==
    CASE towards = "Up" -> node.up
      [] towards = "Down" -> node.down
      [] towards = "Left" -> node.left
      [] towards = "Right" -> node.right

----------------------------------------------------------------------------
(* Disjoint-set structure (crate::utilities::UnionFind) *)

UnionFindNew(n) == [i \in 1 .. n |-> i]

UnionMerges(uf, a, b) == uf[a] # uf[b]

UnionResult(uf, a, b) ==
    IF uf[a] = uf[b] THEN uf
    ELSE [i \in DOMAIN uf |-> IF uf[i] = uf[b] THEN uf[a] ELSE uf[i]]

UnionFindDone(uf) == Cardinality({uf[i] : i \in DOMAIN uf}) = 1

----------------------------------------------------------------------------
(* NetTree::new, first half: the junction candidates and the node vector *)

EndpointPositions(segs) ==
    {Flatten(r[1]) : r \in segs} \cup {Flatten(r[2]) : r \in segs}

\* *hmap.entry(position).or_insert(Option::default()) = idx
HashMapAssign(hmap, position, idx) == (position :> idx) @@ hmap

\* pin_position(idx).unwrap_or_default() instead of expect
ExpectPinOrDefault(idx) ==
    LET opt == pin_position(idx) IN
    [panic |-> FALSE, position |-> IF opt = None THEN <<0, 0>> ELSE opt[1]]

\* pin_position(idx).expect("Pin not found in database")
ExpectPin(idx) ==
    LET opt == pin_position(idx) IN
    IF opt = None THEN [panic |-> TRUE, position |-> <<0, 0>>]
    ELSE [panic |-> FALSE, position |-> opt[1]]

\* The fold over the chained iterator, from the k-th pin on; the segment
\* endpoints come first in the chain and all carry None.
RECURSIVE FoldPins(_, _, _)
FoldPins(hmap, pins, k) ==
    IF k > Len(pins) THEN [panic |-> FALSE, hmap |-> hmap]
    ELSE LET found == ExpectPin(pins[k]) IN
         IF found.panic THEN [panic |-> TRUE, hmap |-> hmap]
         ELSE FoldPins(HashMapAssign(hmap, found.position, Some(pins[k])), pins, k + 1)

Candidates(segs, pins) ==
    FoldPins([p \in EndpointPositions(segs) |-> None], pins, 1)

\* HashMap::into_iter yields the entries in an arbitrary order.
NodeOrders(hmap) ==
    LET n == Cardinality(DOMAIN hmap) IN
    {s \in [1 .. n -> DOMAIN hmap] : \A i, j \in 1 .. n : s[i] = s[j] => i = j}

NodesOf(hmap, order) ==
    [i \in 1 .. Len(order) |-> NewNode(order[i], hmap[order[i]])]

\* debug_assert_eq!: the positions of the nodes are pairwise distinct
PositionsDistinct(ns) ==
    Cardinality({ns[i].position : i \in 1 .. Len(ns)}) = Len(ns)

PositionToIdx(ns, position) ==
    CHOOSE i \in 1 .. Len(ns) : ns[i].position = position

PlanarSegments(segs) == {r \in segs : IsPlanar(r)}

----------------------------------------------------------------------------
(* NetTree::connect *)

SetNode(ns, sindex, oindex, height, diff) ==
    LET some_ptr == Some([index |-> oindex, height |-> height]) IN
    CASE diff = "Up" -> [ns EXCEPT ![sindex].up = some_ptr]
      [] diff = "Down" -> [ns EXCEPT ![sindex].down = some_ptr]
      [] diff = "Left" -> [ns EXCEPT ![sindex].left = some_ptr]
      [] diff = "Right" -> [ns EXCEPT ![sindex].right = some_ptr]

Connect(ns, sindex, oindex, height, diff) ==
    SetNode(SetNode(ns, sindex, oindex, height, diff),
            oindex, sindex, height, Inv(diff))

----------------------------------------------------------------------------
(* NetTree::new, second half: one iteration of the loop and the final checks *)

\* the redundant branch linking the endpoints before it counts the segment
LoopBodyLinksRedundant(st, route, dbg) ==
    LET towards == RouteTowards(route)
        height == Lay(route[1])
        source_idx == PositionToIdx(st.nodes, Flatten(route[1]))
        target_idx == PositionToIdx(st.nodes, Flatten(route[2]))
        linked == Connect(st.nodes, source_idx, target_idx, height, towards)
    IN  IF dbg /\ height # Lay(route[2]) THEN [st EXCEPT !.panic = TRUE]
        ELSE IF ~UnionMerges(st.union_find, source_idx, target_idx)
        THEN IF dbg /\ st.uf_cnt # 0 THEN [st EXCEPT !.panic = TRUE]
             ELSE [st EXCEPT !.uf_cnt = @ + 1, !.nodes = linked]
        ELSE [st EXCEPT !.union_find = UnionResult(@, source_idx, target_idx),
                        !.nodes = linked]

\* The body of `for route in segments...`; st holds the locals
\* nodes, union_find, uf_cnt and whether an assertion panicked.
LoopBody(st, route, dbg) ==
    LET towards == RouteTowards(route)
        height == Lay(route[1])
        source_idx == PositionToIdx(st.nodes, Flatten(route[1]))
        target_idx == PositionToIdx(st.nodes, Flatten(route[2]))
    IN  IF dbg /\ height # Lay(route[2]) THEN [st EXCEPT !.panic = TRUE]
        ELSE IF ~UnionMerges(st.union_find, source_idx, target_idx)
        THEN IF dbg /\ st.uf_cnt # 0 THEN [st EXCEPT !.panic = TRUE]
             ELSE [st EXCEPT !.uf_cnt = @ + 1]
        ELSE [st EXCEPT !.union_find = UnionResult(@, source_idx, target_idx),
                        !.nodes = Connect(st.nodes, source_idx, target_idx,
                                          height, towards)]

\* debug_assert!(union_find.done()); debug_assert_eq!(uf_cnt, 1);
FinalChecks(uf, cnt) == UnionFindDone(uf) /\ cnt = 1

----------------------------------------------------------------------------
(* Serialization: FactoryID::from_numeric, Display for Point / Route / Net *)

FmtUsize(n) == IF n = UsizeMax THEN "18446744073709551615" ELSE ToString(n)

FromNumeric(prefix, n) == prefix \o ToString(n + 1)

NetPrefix == "N"

FmtPoint(pt) == <<FmtUsize(pt[1]), FmtUsize(pt[2]), FmtUsize(pt[3])>>

FmtRoute(route) == FmtPoint(route[1]) \o FmtPoint(route[2])

Directions == <<"Up", "Down", "Left", "Right">>

\* fmt_recursive nests at most once per (junction, direction) unless it never
\* returns; a deeper nesting is the stack overflow of an endless recursion.
DepthLimit(list) == 4 * Len(list) + 1

\* skipping the arrival direction itself instead of its inverse
SkipsSame(dir, direction) == dir = direction

\* if dir == direction.inv() { continue; }
Skips(dir, direction) == dir = Inv(direction)

RECURSIVE FmtRecursive(_, _, _, _, _)
RECURSIVE FmtLoop(_, _, _, _, _, _)

\* The `for dir in directions` loop of fmt_recursive from the k-th direction on.
\* ok is FALSE when the recursion went deeper than DepthLimit.
FmtLoop(node, list, name, direction, k, depth) ==
    IF k > Len(Directions) THEN [out |-> <<>>, ok |-> TRUE]
    ELSE LET dir == Directions[k] IN
         IF Skips(dir, direction) \/ Index(node, dir) = None
         THEN FmtLoop(node, list, name, direction, k + 1, depth)
         ELSE LET ptr == Index(node, dir)[1]
                  nearby_node == list[ptr.index]
                  source == With(node.position, ptr.height)
                  target == With(nearby_node.position, ptr.height)
                  line == FmtRoute(<<source, target>>) \o <<name>>
                  sub == FmtRecursive(nearby_node, list, name, dir, depth + 1)
              IN  IF ~sub.ok THEN [out |-> <<line>> \o sub.out, ok |-> FALSE]
                  ELSE LET rest == FmtLoop(node, list, name, direction, k + 1, depth)
                       IN  [out |-> <<line>> \o sub.out \o rest.out, ok |-> rest.ok]

FmtRecursive(node, list, name, direction, depth) ==
    IF depth > DepthLimit(list) THEN [out |-> <<>>, ok |-> FALSE]
    ELSE FmtLoop(node, list, name, direction, 1, depth)

\* the three writes of the first loop of Display::fmt, one junction
FmtNode(node, name) ==
    LET span == Span(node) IN
    <<FmtUsize(node.position[1]), FmtUsize(node.position[2]), FmtUsize(span[1])>>
    \o <<FmtUsize(node.position[1]), FmtUsize(node.position[2]), FmtUsize(span[2])>>
    \o <<name>>

\* the second loop of Display::fmt: fmt_recursive from the root, once per direction
RECURSIVE FmtRoot(_, _, _)
FmtRoot(list, name, k) ==
    IF list = <<>> \/ k > Len(Directions) THEN [out |-> <<>>, ok |-> TRUE]
    ELSE LET first == FmtRecursive(list[1], list, name, Directions[k], 1) IN
         IF ~first.ok THEN first
         ELSE LET rest == FmtRoot(list, name, k + 1)
              IN  [out |-> first.out \o rest.out, ok |-> rest.ok]

FmtVias(list, name) == [i \in 1 .. Len(list) |-> FmtNode(list[i], name)]

FmtNet(netid, list) ==
    LET name == FromNumeric(NetPrefix, netid)
        edges == FmtRoot(list, name, 1)
    IN  [out |-> FmtVias(list, name) \o edges.out, ok |-> edges.ok]

----------------------------------------------------------------------------
(* The state machine *)

SeqsUpTo(S, n) == UNION {[1 .. k -> S] : k \in 0 .. n}

RECURSIVE SubsetsUpTo(_, _)
SubsetsUpTo(S, n) ==
    IF n = 0 THEN {{}}
    ELSE LET smaller == SubsetsUpTo(S, n - 1)
         IN  smaller \cup {T \cup {x} : T \in smaller, x \in S}

\* The arguments of Net::new, the segments drawn from `routes`.
InitOver(routes) ==
    /\ id \in NetIds
    /\ conn_pins \in SeqsUpTo(PinIds, MaxInputs)
    /\ segments \in SubsetsUpTo(routes, MaxInputs - Len(conn_pins))
    /\ debug \in BOOLEAN
    /\ pc = "start"
    /\ panic_msg = ""
    /\ nodes = <<>>
    /\ union_find = <<>>
    /\ uf_cnt = 0
    /\ remaining = {}
    /\ output = <<>>

Inputs == <<id, conn_pins, segments, debug>>

\* A panic unwinds the call: the locals are dropped and no Net exists.
Panic(msg) ==
    /\ pc' = "panicked"
    /\ panic_msg' = msg
    /\ nodes' = <<>>
    /\ union_find' = <<>>
    /\ uf_cnt' = 0
    /\ remaining' = {}
    /\ UNCHANGED <<Inputs, output>>

\* NetTree::new up to the loop: nodes, position_to_idx, union_find, uf_cnt
Collect ==
    /\ pc = "start"
    /\ LET cand == Candidates(segments, conn_pins) IN
       IF cand.panic THEN Panic(PinNotFound)
       ELSE \E order \in NodeOrders(cand.hmap) :
              LET ns == NodesOf(cand.hmap, order) IN
              IF debug /\ ~PositionsDistinct(ns) THEN Panic(AssertFailed)
              ELSE /\ pc' = "loop"
                   /\ nodes' = ns
                   /\ union_find' = UnionFindNew(Len(ns))
                   /\ uf_cnt' = 0
                   /\ remaining' = PlanarSegments(segments)
                   /\ UNCHANGED <<Inputs, panic_msg, output>>

\* One iteration of the loop; HashSet::into_iter yields any remaining segment.
LoopIter ==
    /\ pc = "loop"
    /\ \E route \in remaining :
         LET st == LoopBody([nodes |-> nodes, union_find |-> union_find,
                             uf_cnt |-> uf_cnt, panic |-> FALSE], route, debug)
         IN  IF st.panic THEN Panic(AssertFailed)
             ELSE /\ nodes' = st.nodes
                  /\ union_find' = st.union_find
                  /\ uf_cnt' = st.uf_cnt
                  /\ remaining' = remaining \ {route}
                  /\ UNCHANGED <<Inputs, pc, panic_msg, output>>

\* The end of NetTree::new and of Net::new: the final checks, then Self { nodes }.
Finish ==
    /\ pc = "loop"
    /\ remaining = {}
    /\ IF debug /\ ~FinalChecks(union_find, uf_cnt) THEN Panic(AssertFailed)
       ELSE /\ pc' = "built"
            /\ union_find' = <<>>
            /\ UNCHANGED <<Inputs, panic_msg, nodes, uf_cnt, remaining, output>>

\* Display::fmt of the Net; an endless recursion ends in a stack overflow.
Fmt ==
    /\ pc = "built"
    /\ LET res == FmtNet(id, nodes) IN
       /\ pc' = IF res.ok THEN "formatted" ELSE "overflow"
       /\ output' = res.out
    /\ UNCHANGED <<Inputs, panic_msg, nodes, union_find, uf_cnt, remaining>>

Next == Collect \/ LoopIter \/ Finish \/ Fmt

Init == InitOver(RoutesOver(RowPositions))

InitGrid == InitOver(RoutesOver(GridPositions))

\* Nets along one row of the grid.
Spec == Init /\ [][Next]_vars

\* Nets over the row and the junction above it.
SpecGrid == InitGrid /\ [][Next]_vars

----------------------------------------------------------------------------
(* Vocabulary of the properties *)

\* NetTree::new returned a tree (and Net::new a Net).
Returned == pc \in {"built", "formatted", "overflow"}

NodeIdx == 1 .. Len(nodes)

PointersOf(i) ==
    {<<d, Index(nodes[i], d)[1]>> : d \in {t \in Planar : Index(nodes[i], t) # None}}

RECURSIVE Walk(_)
Walk(seen) ==
    LET next == seen \cup {dp[2].index : dp \in UNION {PointersOf(i) : i \in seen}}
    IN  IF next = seen THEN seen ELSE Walk(next)

MissingPin == \E k \in 1 .. Len(conn_pins) : pin_position(conn_pins[k]) = None

\* The junction positions the input asks for, and the graph of its planar segments.
InputJunctions ==
    EndpointPositions(segments)
    \cup {pin_position(conn_pins[k])[1] :
            k \in {j \in 1 .. Len(conn_pins) : pin_position(conn_pins[j]) # None}}

\* The pairs of positions joined by a planar segment.
InputEdges == {{Flatten(r[1]), Flatten(r[2])} : r \in PlanarSegments(segments)}

RECURSIVE Component(_, _)
Component(edges, S) ==
    LET next == S \cup UNION {e \in edges : e \cap S # {}}
    IN  IF next = S THEN S ELSE Component(edges, next)

Components == LET edges == InputEdges IN {Component(edges, {p}) : p \in InputJunctions}

InputConnected == Cardinality(Components) = 1

\* Number of planar segments whose union returns false, in whatever order they come.
RedundantTotal ==
    Cardinality(PlanarSegments(segments))
    - (Cardinality(InputJunctions) - Cardinality(Components))

\* The lines Display::fmt wrote after the junction lines.
EdgeLines == SubSeq(output, Len(nodes) + 1, Len(output))

FmtPair(pair) == <<FmtUsize(pair[1]), FmtUsize(pair[2])>>

\* The links of the tree: the pairs of junctions joined by a pointer.
Links == UNION {{{i, dp[2].index} : dp \in PointersOf(i)} : i \in NodeIdx}

LinesOfLink(link) ==
    {k \in 1 .. Len(EdgeLines) :
        {<<EdgeLines[k][1], EdgeLines[k][2]>>, <<EdgeLines[k][4], EdgeLines[k][5]>>}
        = {FmtPair(nodes[i].position) : i \in link}}

HeightsAt(i) == {dp[2].height : dp \in PointersOf(i)}

MinLayerAt(i) ==
    IF HeightsAt(i) = {} THEN UsizeMax
    ELSE CHOOSE h \in HeightsAt(i) : \A g \in HeightsAt(i) : h <= g

MaxLayerAt(i) ==
    IF HeightsAt(i) = {} THEN UsizeMin
    ELSE CHOOSE h \in HeightsAt(i) : \A g \in HeightsAt(i) : h >= g

IsEdgeLine(line) ==
    /\ Len(line) = 7
    /\ <<line[1], line[2]>> # <<line[4], line[5]>>
    /\ line[3] = line[6]

Orderings(S) ==
    LET n == Cardinality(S) IN
    {q \in [1 .. n -> S] : \A i, j \in 1 .. n : q[i] = q[j] => i = j}

\* The loop of NetTree::new over the segments in the order q, assertions aside.
RECURSIVE RunLoop(_, _, _)
RunLoop(st, q, k) ==
    IF k > Len(q) THEN st ELSE RunLoop(LoopBody(st, q[k], FALSE), q, k + 1)

Unlinked(ns) == [i \in 1 .. Len(ns) |-> NewNode(ns[i].position, ns[i].id)]

TreeOfOrder(q) ==
    RunLoop([nodes |-> Unlinked(nodes), union_find |-> UnionFindNew(Len(nodes)),
             uf_cnt |-> 0, panic |-> FALSE], q, 1).nodes

\* A tree as the set of tagged junctions and the set of pointers between positions.
TreeView(ns) ==
    [junctions |-> {<<ns[i].position, ns[i].id>> : i \in 1 .. Len(ns)},
     pointers |-> UNION {
        {<<ns[i].position, d, ns[Index(ns[i], d)[1].index].position,
           Index(ns[i], d)[1].height>> : d \in {t \in Planar : Index(ns[i], t) # None}}
        : i \in 1 .. Len(ns)}]

----------------------------------------------------------------------------
(* Properties *)

\* C1: once a net is serialized, the edge lines are in one-to-one
\* correspondence with the links of the junction tree: every link is written
\* exactly once and nothing else is written.
C1_EachLinkWrittenOnce ==
    pc = "formatted" =>
        /\ \A link \in Links : Cardinality(LinesOfLink(link)) = 1
        /\ Len(EdgeLines) = Cardinality(Links)

\* C2: after NetTree::new returns in a build with assertions, a walk over the
\* stored pointers from any junction reaches every junction.
C2_WalkReachesAll ==
    (debug /\ Returned) => \A i \in NodeIdx : Walk({i}) = NodeIdx

\* C3: every listed pin id is the tag of exactly one junction of the returned
\* tree, the junction at the pin's position.
C3_EveryPinTagsOneJunction ==
    Returned =>
        \A k \in 1 .. Len(conn_pins) :
            LET tagged == {i \in NodeIdx : nodes[i].id = Some(conn_pins[k])} IN
            /\ Cardinality(tagged) = 1
            /\ \A i \in tagged : Some(nodes[i].position) = pin_position(conn_pins[k])

\* C4 as stated: a listed pin without a position is reported to the caller as
\* an error value; the call is not aborted.
C4_MissingPinIsNoAbort == MissingPin => pc # "panicked"

\* C4 as amended: a listed pin without a position aborts the call with the
\* panic "Pin not found in database" before any segment is processed, and no
\* Net is produced.
C4_MissingPinPanics ==
    MissingPin =>
        /\ pc \in {"start", "panicked"}
        /\ pc = "panicked" => (panic_msg = PinNotFound /\ nodes = <<>>)

C4_Witness == MissingPin /\ pc = "panicked" /\ panic_msg = PinNotFound

\* C5, the outcome: with assertions enabled and every pin known, a connecting
\* segment set with exactly one redundant segment never fails an assertion, and
\* a set with two or more fails one inside the loop, at its second redundant
\* segment, in every processing order.
C5_Outcome ==
    (debug /\ ~MissingPin) =>
        LET redundant == RedundantTotal IN
        /\ (pc = "panicked" /\ redundant = 1) => ~InputConnected
        /\ redundant >= 2 =>
             /\ ~Returned
             /\ pc = "loop" => (uf_cnt <= 1 /\ remaining # {})
             /\ pc = "panicked" => panic_msg = AssertFailed

\* C5: the outcome above, and the iteration that finds a segment redundant
\* leaves every pointer of every junction as it was.
C5_RedundancyBound ==
    /\ []C5_Outcome
    /\ [][(pc = "loop" /\ uf_cnt' = uf_cnt + 1) => nodes' = nodes]_vars

C5_Witness == debug /\ pc = "built" /\ uf_cnt = 1 /\ RedundantTotal = 1

\* C6: the net of pins at (0,0) and (0,3) and the single segment
\* Route((0,0,1),(0,3,1)) is constructed without a failure: 2 junctions, a Right
\* pointer at layer 1 from (0,0) to (0,3) and a Left pointer at layer 1 back.
C6_TwoPinNetIsBuilt ==
    (/\ conn_pins = <<0, 1>>
     /\ segments = {<<<<0, 0, 1>>, <<0, 3, 1>>>>}
     /\ pc \notin {"start", "loop"}) =>
        /\ Returned
        /\ Len(nodes) = 2
        /\ LET a == PositionToIdx(nodes, <<0, 0>>)
               b == PositionToIdx(nodes, <<0, 3>>)
           IN  /\ nodes[a].right = Some([index |-> b, height |-> 1])
               /\ nodes[b].left = Some([index |-> a, height |-> 1])

C8_SameTreeInEveryOrder ==
    Returned =>
        \A q \in Orderings(PlanarSegments(segments)) :
            TreeView(TreeOfOrder(q)) = TreeView(nodes)

\* C9: in a returned tree every pointer has its reciprocal: a pointer of a in
\* direction d to b at layer h comes with one of b in direction d.inv() to a at h.
C9_PointersReciprocal ==
    Returned =>
        \A i \in NodeIdx : \A dp \in PointersOf(i) :
            Index(nodes[dp[2].index], Inv(dp[1]))
                = Some([index |-> i, height |-> dp[2].height])

====
